---------------------------- MODULE Spec2Model ----------------------------
(***************************************************************************)
(* Model of the task generator's configuration store (constants.py: the    *)
(* Config singleton, _cb_reconfigure and the lp parameters of Pedsim) and  *)
(* of the Gazebo backend adapter (simulators/gazebo_simulator.py).         *)
(*                                                                         *)
(* Floats are modelled by integers.  float("inf") is the integer Inf,      *)
(* larger than every number a payload or a parameter carries.  An optional *)
(* value (Optional[Any]) is a sequence of length 0 (None) or 1.            *)
(***************************************************************************)
EXTENDS Integers, Sequences, FiniteSets, TLC

\* ------------------------------------------------------------------ bounds
MaxSeed == 1          \* seeds are -1..MaxSeed
MaxEpisodes == 0      \* episodes are -1..MaxEpisodes
MaxTimeout == 0       \* timeouts are -1..MaxTimeout
MaxGoal == 1          \* goal radius / angle are 0..MaxGoal
MaxDraws == 2         \* draws taken from one generator
MaxRange == 2         \* range ends are 0, 6, .., 6 * MaxRange
MaxWaits == 2         \* __init__ is watched for MaxWaits service timeouts
MaxSteps == 2         \* step_simulation is called with 1..MaxSteps
MaxTicks == 3         \* ticks the world is run for
ZMax == 4             \* a standard normal variate is in -ZMax..ZMax

\* ------------------------------------------------- Constants.Defaults
\* (seconds, a count, hundredths of a metre, metres)
TIMEOUT_WAIT_FOR_SERVICE == 60
MAX_RESET_FAIL_TIMES == 10
SPAWN_ROBOT_SAFE_DIST == 25
OBSTACLE_MAX_RADIUS == 15

\* float("inf")
Inf == 1000000

\* np.random.default_rng(None): seeded from OS entropy
Entropy == -1

VARIABLES
    Config,     \* the TaskConfig singleton (General, Robot, Obstacles flattened)
    cb,         \* the activation of _cb_reconfigure: position, payload, store at entry
    val,        \* lp: the value each parameter loaded once at the start
    res,        \* the last call of a closure returned by lp
    avail,      \* the engine's services that are up
    everAvail,  \* the engine's services that have been up at some time
    sim,        \* GazeboSimulator: the position of __init__ and the time it has been waiting
    call,       \* the operation the task generator has called on the handle
    inflight,   \* the request sent by call_async and not yet answered
    world,      \* the engine's world: entities, paused, ticks done
    declared,   \* the parameters declared on the node
    faulted,    \* some operation ended in a transport failure
    episode     \* how the last before_reset_task ended, until after_reset_task is called

configVars == <<Config, cb, val, res>>
simVars == <<avail, everAvail, sim, call, inflight, world, declared, faulted, episode>>
vars == <<configVars, simVars>>

\* ------------------------------------------------------------ the payload
Keys == {"RANDOM_seed", "episodes", "goal_radius", "goal_tolerance_angle", "timeout"}

SeedVals == -1..MaxSeed
EpisodeVals == -1..MaxEpisodes
TimeoutVals == -1..MaxTimeout
GoalVals == 0..MaxGoal

CompletePayloads ==
    { [k \in Keys |-> CASE k = "RANDOM_seed" -> s
                        [] k = "episodes" -> e
                        [] k = "goal_radius" -> g
                        [] k = "goal_tolerance_angle" -> a
                        [] OTHER -> t] :
        s \in SeedVals, e \in EpisodeVals, g \in GoalVals, a \in GoalVals, t \in TimeoutVals }

Without(p, k) == [x \in (DOMAIN p) \ {k} |-> p[x]]

\* a payload is complete, or lacks one of the keys
Payloads == CompletePayloads \cup { Without(p, k) : p \in CompletePayloads, k \in Keys }

\* ------------------------------------------------------------ the store
\* np.random.default_rng(seed): a fresh generator, no draw taken yet
default_rng(seed) == [seed |-> seed, n |-> 0]

\* (lambda x: x if x >= 0 else None)
SeedOrNone(x) == IF x >= 0 THEN x ELSE Entropy

InfIfNegative_NoSentinel(x) == x

\* (lambda x: float("inf") if x < 0 else x)
InfIfNegative(x) == IF x < 0 THEN Inf ELSE x

\* TaskConfig(): each field's default_factory, given what rosparam_get returns.
\* default_rng raises ValueError on a negative seed, so a store exists only for seed >= 0.
TaskConfig(seed, episodes, goal_radius, goal_tolerance_angle, timeout) ==
    [ WAIT_FOR_SERVICE_TIMEOUT |-> TIMEOUT_WAIT_FOR_SERVICE,
      MAX_RESET_FAIL_TIMES |-> MAX_RESET_FAIL_TIMES,
      RNG |-> default_rng(seed),
      DESIRED_EPISODES |-> episodes,
      GOAL_TOLERANCE_RADIUS |-> goal_radius,
      GOAL_TOLERANCE_ANGLE |-> goal_tolerance_angle,
      SPAWN_ROBOT_SAFE_DIST |-> SPAWN_ROBOT_SAFE_DIST,
      TIMEOUT |-> timeout,
      OBSTACLE_MAX_RADIUS |-> OBSTACLE_MAX_RADIUS ]

CbIdle == [pc |-> "idle", config |-> << >>, before |-> << >>]

ConfigInit ==
    /\ \E s \in 0..MaxSeed, e \in EpisodeVals, g \in GoalVals, a \in GoalVals, t \in TimeoutVals :
          Config = TaskConfig(s, e, g, a, t)
    /\ cb = CbIdle

\* ----------------------------------------------------- _cb_reconfigure
CbDone == {"returned", "raised"}

\* the dynamic_reconfigure server calls _cb_reconfigure(config)
CbCall(config) ==
    /\ cb.pc = "idle"
    /\ cb' = [pc |-> "130", config |-> config, before |-> <<Config>>]
    /\ UNCHANGED <<Config, val, res, simVars>>

Has(key) == key \in DOMAIN cb.config

\* config[key] of a key the payload lacks: KeyError leaves the callback
Raise ==
    /\ cb' = [cb EXCEPT !.pc = "raised"]
    /\ UNCHANGED Config

Store_RebuildsDefaults(field, value, next) ==
    /\ Config' = [Config EXCEPT ![field] = value, !.MAX_RESET_FAIL_TIMES = 0]
    /\ cb' = [cb EXCEPT !.pc = next]

\* Config.<field> = value, then on to the next statement
Store(field, value, next) ==
    /\ Config' = [Config EXCEPT ![field] = value]
    /\ cb' = [cb EXCEPT !.pc = next]

Cb130 ==
    /\ cb.pc = "130"
    /\ IF Has("RANDOM_seed")
       THEN Store("RNG", default_rng(SeedOrNone(cb.config["RANDOM_seed"])), "131")
       ELSE Raise
    /\ UNCHANGED <<val, res, simVars>>

Cb131 ==
    /\ cb.pc = "131"
    /\ IF Has("episodes")
       THEN Store("DESIRED_EPISODES", InfIfNegative(cb.config["episodes"]), "133")
       ELSE Raise
    /\ UNCHANGED <<val, res, simVars>>

Cb133 ==
    /\ cb.pc = "133"
    /\ IF Has("goal_radius")
       THEN Store("GOAL_TOLERANCE_RADIUS", cb.config["goal_radius"], "134")
       ELSE Raise
    /\ UNCHANGED <<val, res, simVars>>

Cb134 ==
    /\ cb.pc = "134"
    /\ IF Has("goal_tolerance_angle")
       THEN Store("GOAL_TOLERANCE_ANGLE", cb.config["goal_tolerance_angle"], "135")
       ELSE Raise
    /\ UNCHANGED <<val, res, simVars>>

Cb135 ==
    /\ cb.pc = "135"
    /\ IF Has("timeout")
       THEN Store("TIMEOUT", InfIfNegative(cb.config["timeout"]), "returned")
       ELSE Raise
    /\ UNCHANGED <<val, res, simVars>>

\* the callback's frame is gone: the server waits for the next reconfiguration
CbExit ==
    /\ cb.pc \in CbDone
    /\ cb' = CbIdle
    /\ UNCHANGED <<Config, val, res, simVars>>

\* -------------------------------------------------------------------- lp
RangeEnds == { 6 * k : k \in 0..MaxRange }

Scalar(v) == [isList |-> FALSE, items |-> <<v>>]
List(items) == [isList |-> TRUE, items |-> items]

\* what rospy.get_param(pedsim_ns(parameter), fallback) can give: a scalar, or a list
\* of two or more numbers (a shorter list fails to unpack inside lp)
ParamVals ==
    { Scalar(v) : v \in RangeEnds }
    \cup { List(<<lo, hi>>) : lo \in RangeEnds, hi \in RangeEnds }
    \cup { List(<<lo, hi, 0>>) : lo \in RangeEnds, hi \in RangeEnds }

\* the argument of the closure: None, or an explicit value
ExplicitVals == {-1, 6 * MaxRange + 1} \cup RangeEnds
Args == { << >> } \cup { <<v>> : v \in ExplicitVals }

Min(a, b) == IF a <= b THEN a ELSE b
Max(a, b) == IF a >= b THEN a ELSE b

Clamp_NoUpper(lo, hi, x) == Max(lo, x)

\* min(hi, max(lo, x))
Clamp(lo, hi, x) == Min(hi, Max(lo, x))

\* the n-th standard normal variate of the generator seeded with seed
Stream(seed, n) == ((seed * 5 + n * 3 + 2) % (2 * ZMax + 1)) - ZMax

NextVariates_Unseeded(rng) == -ZMax..ZMax

\* the variates the next draw of rng can give: fixed by seed and position, or any
NextVariates(rng) ==
    IF rng.seed = Entropy THEN -ZMax..ZMax ELSE { Stream(rng.seed, rng.n) }

\* RNG.normal(loc, scale) for the variate z
Normal(loc, scale, z) == loc + scale * z

\* a call: its argument, what it raised or returned, the sample before clamping (raw) and
\* the store's generator as the call found it (rng), when it drew
ResIdle ==
    [x |-> << >>, raised |-> "", value |-> << >>, raw |-> << >>, rng |-> << >>,
     called |-> FALSE]

ResolveExplicit_UsesDefault(x) == <<val.items[1]>>

\* lambda x: x if x is not None else gen(): the explicit branch
ResolveExplicit(x) == x

\* gen = lambda: val
GenScalar(x) ==
    /\ x = << >>
    /\ ~val.isList
    /\ res' = [x |-> x, raised |-> "", value |-> val.items, raw |-> << >>, rng |-> << >>,
               called |-> TRUE]
    /\ UNCHANGED <<Config, cb, val, simVars>>

\* gen = lambda: min(hi, max(lo, RNG.normal((hi + lo) / 2, (hi - lo) / 6)))
GenRange(x) ==
    /\ x = << >>
    /\ val.isList
    /\ LET lo == val.items[1]
           hi == val.items[2]
           scale == (hi - lo) \div 6
       IN  IF scale < 0
           THEN \* Generator.normal raises ValueError("scale < 0")
                /\ res' = [x |-> x, raised |-> "ValueError", value |-> << >>,
                           raw |-> << >>, rng |-> << >>, called |-> TRUE]
                /\ UNCHANGED <<Config, cb, val, simVars>>
           ELSE /\ Config.RNG.n < MaxDraws
                /\ \E z \in NextVariates(Config.RNG) :
                      LET sample == Normal((hi + lo) \div 2, scale, z)
                      IN  res' = [x |-> x, raised |-> "", value |-> <<Clamp(lo, hi, sample)>>,
                                  raw |-> <<sample>>, rng |-> <<Config.RNG>>,
                                  called |-> TRUE]
                /\ Config' = [Config EXCEPT !.RNG.n = @ + 1]
                /\ UNCHANGED <<cb, val, simVars>>

Explicit_DrawsFirst(x) ==
    /\ x # << >>
    /\ Config.RNG.n < MaxDraws
    /\ res' = [x |-> x, raised |-> "", value |-> ResolveExplicit(x), raw |-> << >>,
               rng |-> << >>, called |-> TRUE]
    /\ Config' = [Config EXCEPT !.RNG.n = @ + 1]
    /\ UNCHANGED <<cb, val, simVars>>

Explicit(x) ==
    /\ x # << >>
    /\ res' = [x |-> x, raised |-> "", value |-> ResolveExplicit(x), raw |-> << >>,
               rng |-> << >>, called |-> TRUE]
    /\ UNCHANGED <<Config, cb, val, simVars>>

\* a call of the closure lp returned
Resolve(x) == Explicit(x) \/ GenScalar(x) \/ GenRange(x)

\* ------------------------------------------------------ GazeboSimulator
\* /world/default/create, remove, set_pose, control
Services == {"create", "remove", "set_pose", "control"}

Names == {"burger", "box"}
Entities == [name : Names, robot : BOOLEAN]

\* the names gazebo_simulator.py binds at module level: its imports and its class
ModuleGlobals ==
    { "rclpy", "Node", "SpawnEntity", "DeleteEntity", "SetEntityPose", "ControlWorld",
      "EntityFactory", "WorldControl", "PoseStamped", "Pose", "Quaternion", "Point", "sys",
      "SimulatorFactory", "rosparam_get", "quaternion_from_euler", "Config", "Constants",
      "BaseSimulator", "ModelType", "Namespace", "PositionOrientation", "RobotProps",
      "GazeboSimulator" }

\* an invocation: the requests it has sent (sent), how its request was answered (answer),
\* whether the name it spawns was absent from the world (fresh), and what the invocation
\* before it was (prev)
CallIdle ==
    [op |-> "", pc |-> "idle", outcome |-> "", fault |-> FALSE,
     sent |-> 0, answer |-> "", fresh |-> FALSE, prev |-> ""]

SimInit ==
    /\ avail = {}
    /\ everAvail = {}
    /\ sim = [pc |-> "58", elapsed |-> 0]
    /\ call = CallIdle
    /\ inflight = << >>
    /\ world \in [entities : {{}}, paused : BOOLEAN, ticks : {0}]
    /\ declared = {}
    /\ faulted = FALSE
    /\ episode = "none"

\* the engine brings a service up, or loses it
ServiceUp(srv) ==
    /\ srv \notin avail
    /\ avail' = avail \cup {srv}
    /\ everAvail' = everAvail \cup {srv}
    /\ UNCHANGED <<configVars, episode, sim, call, inflight, world, declared, faulted>>

ServiceDown(srv) ==
    /\ srv \in avail
    /\ avail' = avail \ {srv}
    /\ UNCHANGED <<configVars, episode, everAvail, sim, call, inflight, world, declared, faulted>>

WaitForService_NoWait(srv) == TRUE

\* client.wait_for_service(): no timeout_sec is given, so it returns once the service is up
WaitForService(srv) == srv \in avail

Constructing == sim.pc \in {"58", "59", "60", "61"}

Init58 ==
    /\ sim.pc = "58"
    /\ WaitForService("create")
    /\ sim' = [sim EXCEPT !.pc = "59"]
    /\ UNCHANGED <<configVars, episode, avail, everAvail, call, inflight, world, declared, faulted>>

Init59 ==
    /\ sim.pc = "59"
    /\ WaitForService("remove")
    /\ sim' = [sim EXCEPT !.pc = "60"]
    /\ UNCHANGED <<configVars, episode, avail, everAvail, call, inflight, world, declared, faulted>>

Init60 ==
    /\ sim.pc = "60"
    /\ WaitForService("set_pose")
    /\ sim' = [sim EXCEPT !.pc = "61"]
    /\ UNCHANGED <<configVars, episode, avail, everAvail, call, inflight, world, declared, faulted>>

Init61 ==
    /\ sim.pc = "61"
    /\ WaitForService("control")
    /\ sim' = [pc |-> "ready", elapsed |-> 0]
    /\ UNCHANGED <<configVars, episode, avail, everAvail, call, inflight, world, declared, faulted>>

\* time passes while __init__ has not returned
Tick ==
    /\ Constructing
    /\ sim.elapsed < MaxWaits * Config.WAIT_FOR_SERVICE_TIMEOUT
    /\ sim' = [sim EXCEPT !.elapsed = @ + Config.WAIT_FOR_SERVICE_TIMEOUT]
    /\ UNCHANGED <<configVars, episode, avail, everAvail, call, inflight, world, declared, faulted>>

\* an unpause or a step called between before_reset_task and after_reset_task
Disturbed == IF episode = "none" THEN "none" ELSE "disturbed"

\* the request messages
SetEntityPoseRequest(name) ==
    [srv |-> "set_pose", entity |-> name, pause |-> FALSE, multi_step |-> 0]
SpawnEntityRequest(name) ==
    [srv |-> "create", entity |-> name, pause |-> FALSE, multi_step |-> 0]
DeleteEntityRequest(name) ==
    [srv |-> "remove", entity |-> name, pause |-> FALSE, multi_step |-> 0]
\* ControlWorld.Request() with a fresh WorldControl(): pause False, multi_step 0
ControlWorldRequest(pause, steps) ==
    [srv |-> "control", entity |-> "", pause |-> pause, multi_step |-> steps]

\* the task generator holds the handle __init__ returned and calls one operation at a time
Free == sim.pc = "ready" /\ call.pc \in {"idle", "done"}

\* what the invocation that has just ended was, for the one that follows it
Prev ==
    CASE call.pc # "done" -> ""
      [] call.op = "spawn_entity" /\ call.answer = "respond" /\ call.outcome = "False" -> "collision"
      [] call.op = "pause_simulation" /\ call.outcome = "True" -> "paused"
      [] OTHER -> ""

\* future = client.call_async(request); rclpy.spin_until_future_complete(self, future)
Send(op, request) ==
    /\ call' = [op |-> op, pc |-> "spin", outcome |-> "", fault |-> FALSE,
                sent |-> 1, answer |-> "",
                fresh |-> (request.srv = "create" /\ request.entity \notin world.entities),
                prev |-> Prev]
    /\ inflight' = Append(inflight, request)

move_entity(name) ==
    /\ Free
    /\ Send("move_entity", SetEntityPoseRequest(name))
    /\ UNCHANGED <<configVars, episode, avail, everAvail, sim, world, declared, faulted>>

\* declare_parameter of a name the node has declared raises ParameterAlreadyDeclaredException
spawn_entity(entity) ==
    /\ Free
    /\ IF entity.robot /\ entity.name \in declared
       THEN /\ call' = [op |-> "spawn_entity", pc |-> "done",
                        outcome |-> "ParameterAlreadyDeclaredException", fault |-> FALSE,
                        sent |-> 0, answer |-> "",
                        fresh |-> (entity.name \notin world.entities), prev |-> Prev]
            /\ UNCHANGED <<inflight, declared>>
       ELSE /\ declared' = IF entity.robot THEN declared \cup {entity.name} ELSE declared
            /\ Send("spawn_entity", SpawnEntityRequest(entity.name))
    /\ UNCHANGED <<configVars, episode, avail, everAvail, sim, world, faulted>>

delete_entity(name) ==
    /\ Free
    /\ Send("delete_entity", DeleteEntityRequest(name))
    /\ UNCHANGED <<configVars, episode, avail, everAvail, sim, world, declared, faulted>>

pause_simulation_Toggles ==
    /\ Free
    /\ Send("pause_simulation", ControlWorldRequest(~world.paused, 0))
    /\ UNCHANGED <<configVars, episode, avail, everAvail, sim, world, declared, faulted>>

pause_simulation ==
    /\ Free
    /\ Send("pause_simulation", ControlWorldRequest(TRUE, 0))
    /\ UNCHANGED <<configVars, episode, avail, everAvail, sim, world, declared, faulted>>

unpause_simulation ==
    /\ Free
    /\ Send("unpause_simulation", ControlWorldRequest(FALSE, 0))
    /\ episode' = Disturbed
    /\ UNCHANGED <<configVars, avail, everAvail, sim, world, declared, faulted>>

step_simulation(steps) ==
    /\ Free
    /\ Send("step_simulation", ControlWorldRequest(FALSE, steps))
    /\ episode' = Disturbed
    /\ UNCHANGED <<configVars, avail, everAvail, sim, world, declared, faulted>>

before_reset_task_NoPause ==
    /\ Free
    /\ Send("before_reset_task", ControlWorldRequest(FALSE, 0))
    /\ UNCHANGED <<configVars, episode, avail, everAvail, sim, world, declared, faulted>>

\* self.pause_simulation()
before_reset_task ==
    /\ Free
    /\ Send("before_reset_task", ControlWorldRequest(TRUE, 0))
    /\ UNCHANGED <<configVars, episode, avail, everAvail, sim, world, declared, faulted>>

\* try: self.unpause_simulation()
after_reset_task ==
    /\ Free
    /\ Send("after_reset_task", ControlWorldRequest(FALSE, 0))
    /\ episode' = "none"
    /\ UNCHANGED <<configVars, avail, everAvail, sim, world, declared, faulted>>

\* what the operation hands its caller for the response's success flag
Returned(op, success) ==
    IF op \in {"before_reset_task", "after_reset_task"}
    THEN "None"
    ELSE IF success THEN "True" ELSE "False"

\* except rospy.service.ServiceException as e: rospy.logwarn(e)
\* the clause's expression is evaluated first, and names rospy
ExceptClause(exc) ==
    IF "rospy" \notin ModuleGlobals
    THEN "NameError"
    ELSE IF exc = "rospy.service.ServiceException" THEN "None" ELSE exc

\* what the operation hands its caller when future.result() raises exc
Raised(op, exc) ==
    IF op = "after_reset_task" THEN ExceptClause(exc) ELSE exc

\* the engine's answer to a request: the world after it, and the success flag
EngineSuccess(w, req) ==
    CASE req.srv = "create" -> req.entity \notin w.entities
      [] req.srv = "remove" -> req.entity \in w.entities
      [] req.srv = "set_pose" -> req.entity \in w.entities
      [] OTHER -> TRUE

EngineWorld(w, req) ==
    CASE req.srv = "create" -> [w EXCEPT !.entities = @ \cup {req.entity}]
      [] req.srv = "remove" -> [w EXCEPT !.entities = @ \ {req.entity}]
      [] req.srv = "set_pose" -> w
      [] OTHER -> [w EXCEPT !.ticks = @ + req.multi_step, !.paused = req.pause]

\* the response arrives: return future.result().success
Respond ==
    /\ inflight # << >>
    /\ inflight[1].srv \in avail
    /\ world.ticks + inflight[1].multi_step <= MaxTicks
    /\ world' = EngineWorld(world, inflight[1])
    /\ call' = [call EXCEPT !.pc = "done", !.answer = "respond",
                            !.outcome = Returned(call.op, EngineSuccess(world, inflight[1]))]
    /\ inflight' = Tail(inflight)
    /\ episode' = IF call.op = "before_reset_task" THEN "accepted" ELSE episode
    /\ UNCHANGED <<configVars, avail, everAvail, sim, declared, faulted>>

\* the engine turns the request down: success is False and the world is as it was
Refuse ==
    /\ inflight # << >>
    /\ inflight[1].srv \in avail
    /\ call' = [call EXCEPT !.pc = "done", !.answer = "refuse",
                            !.outcome = Returned(call.op, FALSE)]
    /\ inflight' = Tail(inflight)
    /\ episode' = IF call.op = "before_reset_task" THEN "refused" ELSE episode
    /\ UNCHANGED <<configVars, avail, everAvail, sim, world, declared, faulted>>

\* the call fails in the transport: future.result() raises
Fault ==
    /\ inflight # << >>
    /\ call' = [call EXCEPT !.pc = "done", !.answer = "fault",
                            !.outcome = Raised(call.op, "TransportError"), !.fault = TRUE]
    /\ inflight' = Tail(inflight)
    /\ faulted' = (faulted \/ call.op # "after_reset_task")
    /\ UNCHANGED <<configVars, episode, avail, everAvail, sim, world, declared>>

\* a world that is not paused runs
WorldRun ==
    /\ ~world.paused
    /\ world.ticks < MaxTicks
    /\ world' = [world EXCEPT !.ticks = @ + 1]
    /\ UNCHANGED <<configVars, episode, avail, everAvail, sim, call, inflight, declared, faulted>>

\* ------------------------------------------------------ specifications
\* the store under reconfiguration
StoreInit ==
    /\ ConfigInit
    /\ val = Scalar(0)
    /\ res = ResIdle
    /\ SimInit
    /\ ~world.paused

StoreNext ==
    \/ \E config \in Payloads : CbCall(config)
    \/ Cb130
    \/ Cb131
    \/ Cb133
    \/ Cb134
    \/ Cb135
    \/ CbExit

StoreSpec == StoreInit /\ [][StoreNext]_vars

\* payloads that differ in the seed alone
SeedPayloads ==
    { p \in CompletePayloads :
        /\ p["episodes"] = -1
        /\ p["goal_radius"] = 0
        /\ p["goal_tolerance_angle"] = 0
        /\ p["timeout"] = -1 }

\* the parameters of Pedsim, sampled while the store is reconfigured
ParamInit ==
    /\ \E s \in 0..MaxSeed : Config = TaskConfig(s, -1, 0, 0, -1)
    /\ cb = CbIdle
    /\ val \in ParamVals
    /\ res = ResIdle
    /\ SimInit
    /\ ~world.paused

ParamNext ==
    \/ \E config \in SeedPayloads : CbCall(config)
    \/ Cb130
    \/ Cb131
    \/ Cb133
    \/ Cb134
    \/ Cb135
    \/ CbExit
    \/ \E x \in Args : Resolve(x)

ParamSpec == ParamInit /\ [][ParamNext]_vars

\* the backend handle, from its construction on
SimSpecInit ==
    /\ Config = TaskConfig(0, -1, 0, 0, -1)
    /\ cb = CbIdle
    /\ val = Scalar(0)
    /\ res = ResIdle
    /\ SimInit

SimNext ==
    \/ \E srv \in Services : ServiceUp(srv)
    \/ \E srv \in Services : ServiceDown(srv)
    \/ Init58
    \/ Init59
    \/ Init60
    \/ Init61
    \/ Tick
    \/ \E name \in Names : move_entity(name)
    \/ \E entity \in Entities : spawn_entity(entity)
    \/ \E name \in Names : delete_entity(name)
    \/ pause_simulation
    \/ unpause_simulation
    \/ \E steps \in 1..MaxSteps : step_simulation(steps)
    \/ before_reset_task
    \/ after_reset_task
    \/ Respond
    \/ Refuse
    \/ Fault
    \/ WorldRun

SimSpec == SimSpecInit /\ [][SimNext]_vars

\* __init__ runs on when it can, and time passes; the engine owes nothing
SimFairness ==
    /\ WF_vars(Init58)
    /\ WF_vars(Init59)
    /\ WF_vars(Init60)
    /\ WF_vars(Init61)
    /\ WF_vars(Tick)

FairSimSpec == SimSpecInit /\ [][SimNext]_vars /\ SimFairness

\* ------------------------------------------------------------ the claims
Running == cb.pc \notin {"idle", "returned", "raised"}
Before == cb.before[1]
Lacking == Keys \ DOMAIN cb.config

\* the values the payload asks for, as section 4.2 of the specification maps them
WantedEpisodes == IF cb.config["episodes"] < 0 THEN Inf ELSE cb.config["episodes"]
WantedTimeout == IF cb.config["timeout"] < 0 THEN Inf ELSE cb.config["timeout"]

\* the store shows one of the two fields as the payload sets it and the other as it was
Torn ==
    \/ /\ Config.DESIRED_EPISODES = WantedEpisodes
       /\ Config.DESIRED_EPISODES # Before.DESIRED_EPISODES
       /\ Config.TIMEOUT = Before.TIMEOUT
       /\ Config.TIMEOUT # WantedTimeout
    \/ /\ Config.TIMEOUT = WantedTimeout
       /\ Config.TIMEOUT # Before.TIMEOUT
       /\ Config.DESIRED_EPISODES = Before.DESIRED_EPISODES
       /\ Config.DESIRED_EPISODES # WantedEpisodes

\* C1: reconfigure is atomic for readers: in no state, the states in the middle of a
\* running reconfigure included, does the store show DesiredEpisodes of the new payload
\* together with the old Timeout, or the new Timeout with the old DesiredEpisodes.
C1_ReconfigureAtomic ==
    (cb.pc # "idle" /\ Lacking = {}) => ~Torn

\* C2: a payload that lacks one of the expected keys makes reconfigure report an error
\* and leaves every field of the store as it was before the call.
C2_MissingKeyRejected ==
    (cb.pc \in CbDone /\ Lacking # {}) => (cb.pc = "raised" /\ Config = Before)

\* C3: after reconfigure returns for a complete payload, DesiredEpisodes and Timeout are
\* +infinity for a negative input and the input otherwise, and the two goal tolerances
\* are the payload's values.
C3_ReconfigureResult ==
    cb.pc = "returned" =>
        /\ Lacking = {}
        /\ Config.DESIRED_EPISODES = WantedEpisodes
        /\ Config.TIMEOUT = WantedTimeout
        /\ Config.GOAL_TOLERANCE_RADIUS = cb.config["goal_radius"]
        /\ Config.GOAL_TOLERANCE_ANGLE = cb.config["goal_tolerance_angle"]

\* a returned reconfigure that turned negative episodes into +infinity, kept a
\* non-negative timeout, and changed both goal tolerances
C3_Witness ==
    /\ cb.pc = "returned"
    /\ cb.config["episodes"] < 0
    /\ Config.DESIRED_EPISODES = Inf
    /\ cb.config["timeout"] >= 0
    /\ Before.TIMEOUT # cb.config["timeout"]
    /\ Before.GOAL_TOLERANCE_RADIUS # Config.GOAL_TOLERANCE_RADIUS
    /\ Before.GOAL_TOLERANCE_ANGLE # Config.GOAL_TOLERANCE_ANGLE

\* C4: in every state of the store, from process start on, DesiredEpisodes and Timeout
\* hold the infinite sentinel when their input was negative: neither is ever negative.
C4_NeverNegative ==
    Config.DESIRED_EPISODES >= 0 /\ Config.TIMEOUT >= 0

\* C5: a call with an explicit (non-null) value returns exactly that value, whatever
\* default or range the parameter was configured with.
C5_ExplicitWins ==
    (res.called /\ res.x # << >>) => (res.raised = "" /\ res.value = res.x)

\* an explicit value outside the configured range came back
C5_Witness ==
    /\ res.called
    /\ res.x # << >>
    /\ val.isList
    /\ val.items[1] < val.items[2]
    /\ res.x[1] > val.items[2]
    /\ res.value = res.x

\* C6: for a range [lo, hi] with lo <= hi, every call without an explicit value returns
\* a value in [lo, hi], whatever the normal draw gave and whatever reconfigure did to the
\* generator in between.
C6_SampleInRange ==
    (res.called /\ res.x = << >> /\ val.isList /\ val.items[1] <= val.items[2]) =>
        /\ res.raised = ""
        /\ Len(res.value) = 1
        /\ val.items[1] <= res.value[1]
        /\ res.value[1] <= val.items[2]

\* a draw above hi, taken from a generator that reconfigure installed, came back as hi
C6_Witness ==
    /\ res.called
    /\ res.x = << >>
    /\ val.isList
    /\ val.items[1] < val.items[2]
    /\ Len(res.raw) = 1
    /\ res.raw[1] > val.items[2]
    /\ res.value = <<val.items[2]>>
    /\ Config.RNG.seed = Entropy

\* C7: if one of the services the adapter depends on never becomes available, the
\* construction of the handle eventually ends in a construction failure: the handle
\* does not stay in Constructing forever.
C7_ConstructionFails ==
    (\E srv \in Services : [](srv \notin avail)) => <>(sim.pc = "failed")

\* C8: the handle is Ready, and an operation is issued on it, only when each of the
\* four services has reported available.
C8_ReadyAfterServices ==
    (sim.pc = "ready" \/ call.pc # "idle" \/ inflight # << >>) => everAvail = Services

\* the constructor has returned and a request is on its way to the engine
C8_Witness ==
    /\ sim.pc = "ready"
    /\ inflight # << >>
    /\ everAvail = Services

\* C9: when the resume call of afterEpisodeReset ends in a transport fault,
\* afterEpisodeReset returns normally: no error reaches its caller.
C9_ResumeFaultSwallowed ==
    (call.op = "after_reset_task" /\ call.pc = "done" /\ call.fault) => call.outcome = "None"

\* C10: once an operation has ended in a transport failure the handle is Faulted, and
\* no later operation sends a request to the engine.
C10_FaultedSendsNothing ==
    [][faulted => ~(inflight = << >> /\ inflight' # << >>)]_vars

\* the six operations that return the engine's success flag
FlagOps ==
    { "move_entity", "spawn_entity", "delete_entity",
      "pause_simulation", "unpause_simulation", "step_simulation" }

\* C11: each invocation of move, spawn, delete, pause, unpause and step sends exactly one
\* request, and returns a flag only when that request has been answered; the handle
\* never has more than one request in flight.
C11_OneRequestPerCall ==
    /\ Len(inflight) <= 1
    /\ call.pc = "spin" => (Len(inflight) = 1 /\ call.sent = 1)
    /\ (call.pc = "done" /\ call.op \in FlagOps) =>
          /\ call.sent = 1
          /\ inflight = << >>
          /\ call.outcome \in {"True", "False"} => call.answer \in {"respond", "refuse"}

\* C12: spawnEntity can be retried: however an earlier spawnEntity of the name ended, an
\* invocation whose transport does not fail returns a boolean, False when the name is
\* already in the world, and raises nothing.
C12_SpawnRetrySafe ==
    (call.op = "spawn_entity" /\ call.pc = "done" /\ ~call.fault) =>
        /\ call.outcome \in {"True", "False"}
        /\ ~call.fresh => call.outcome = "False"

\* C13: a spawnEntity that the engine fails for a name collision returns False, and the
\* spawnEntity that follows it, for a name that is not in the world, returns True (unless
\* the engine turns it down or the transport fails).
C13_SpawnAfterCollision ==
    /\ (call.op = "spawn_entity" /\ call.pc = "done" /\ call.answer = "respond" /\ ~call.fresh)
          => call.outcome = "False"
    /\ (call.op = "spawn_entity" /\ call.pc = "done" /\ call.prev = "collision" /\ call.fresh
           /\ call.answer \notin {"refuse", "fault"})
          => call.outcome = "True"

\* C14: pauseWorld is idempotent: a pause the engine answers, the first or one that follows
\* a successful pause, reports success and leaves the world paused; an unpause the engine
\* answers reports success and leaves the world running, whether or not it was running.
C14_PauseIdempotent ==
    /\ (call.op = "pause_simulation" /\ call.pc = "done" /\ call.answer = "respond") =>
          (call.outcome = "True" /\ world.paused)
    /\ (call.op = "unpause_simulation" /\ call.pc = "done" /\ call.answer = "respond") =>
          (call.outcome = "True" /\ ~world.paused)

\* the second of two pauses in succession has reported success on a paused world
C14_Witness ==
    /\ call.op = "pause_simulation"
    /\ call.pc = "done"
    /\ call.prev = "paused"
    /\ call.outcome = "True"
    /\ world.paused

\* afterEpisodeReset has returned after a resume the engine accepted: the world runs
ResumedRuns ==
    (call.op = "after_reset_task" /\ call.pc = "done" /\ call.answer = "respond") =>
        ~world.paused

\* C16 as claimed: from the return of beforeEpisodeReset to the next call of
\* afterEpisodeReset the world is paused, whatever the engine answered to the pause
\* request; after afterEpisodeReset returns with a successful resume the world runs.
C16_PausedWhateverFlag ==
    /\ episode # "none" => world.paused
    /\ ResumedRuns

\* C16 as amended: when the engine accepted the pause request of beforeEpisodeReset, the
\* world is paused from the return of beforeEpisodeReset to the next call of
\* afterEpisodeReset, unpause_simulation or step_simulation; after afterEpisodeReset
\* returns with a successful resume the world runs.
C16_PausedWhileReset ==
    /\ episode = "accepted" => world.paused
    /\ ResumedRuns

\* beforeEpisodeReset has returned, an entity was spawned since, and the world is paused
C16_Witness ==
    /\ episode = "accepted"
    /\ call.op = "spawn_entity"
    /\ call.pc = "done"
    /\ world.paused

\* C17: a successful stepWorld(steps) on a paused world advances the world by exactly
\* steps ticks and leaves it paused.
C17_StepExact ==
    [][ ( /\ call.op = "step_simulation"
          /\ call.pc = "spin"
          /\ call'.pc = "done"
          /\ call'.outcome = "True"
          /\ world.paused )
        => ( /\ world'.ticks = world.ticks + inflight[1].multi_step
             /\ world'.paused ) ]_vars

\* the range a list parameter was loaded with, and the sample a variate gives in it
Lo == val.items[1]
Hi == val.items[2]
SampleOf(z) == Normal((Hi + Lo) \div 2, (Hi - Lo) \div 6, z)

Frame ==
    << Config.WAIT_FOR_SERVICE_TIMEOUT, Config.MAX_RESET_FAIL_TIMES,
       Config.SPAWN_ROBOT_SAFE_DIST, Config.OBSTACLE_MAX_RADIUS, val >>

\* C18: no step of reconfigure changes WaitForServiceTimeout, MaxResetFailTimes,
\* SpawnRobotSafeDist, ObstacleMaxRadius or the default or range a parameter loaded at
\* initialization.
C18_ReconfigureFrame ==
    [][cb' # cb => Frame' = Frame]_vars

\* a reconfigure has returned and changed the generator and DesiredEpisodes of a store
\* whose parameter was loaded with a range
C18_Witness ==
    /\ cb.pc = "returned"
    /\ val.isList
    /\ Config.RNG # Before.RNG
    /\ Config.DESIRED_EPISODES # Before.DESIRED_EPISODES
    /\ Config.OBSTACLE_MAX_RADIUS = Before.OBSTACLE_MAX_RADIUS

\* C19: a call with an explicit value, or on a parameter with a scalar default, leaves the
\* generator and every other field of the store as they were, and without an explicit
\* value a scalar parameter returns its scalar; a call without an explicit value on a
\* range advances the generator by exactly one draw, and the range stays as loaded.
C19_DrawsOnlyWhenSampling ==
    [][ cb' = cb =>
          /\ val' = val
          /\ (res'.x # << >> \/ ~val.isList) => Config' = Config
          /\ (res'.x = << >> /\ ~val.isList) => res'.value = val.items
          /\ (res'.x = << >> /\ val.isList /\ Lo <= Hi) =>
                Config' = [Config EXCEPT !.RNG.n = @ + 1] ]_vars

\* two calls in a row have each drawn from the generator, and an explicit call after
\* them has left it where it was
C19_Witness ==
    /\ res.called
    /\ res.x # << >>
    /\ val.isList
    /\ Lo < Hi
    /\ Config.RNG.n = 2

=============================================================================
